---- MODULE Spec2Model ----
(***************************************************************************)
(* Model of the onion host bridge: the error bridge eval_or_throw          *)
(* (src_py/onion/core/__init__.py), the evaluator facade eval and the      *)
(* callable adapters it drives, and the host functions of the test suite   *)
(* (test/test_onion.py).                                                   *)
(*                                                                         *)
(* Every object that crosses the boundary is a tagged tuple: script Values *)
(* (PyOnionObject) carry a kind tag, host objects carry "pystr"/"pyint",   *)
(* and completions are <<"return", x>>, <<"value", v>> or <<"raise", e>>.  *)
(***************************************************************************)
EXTENDS Integers, Sequences, FiniteSets, TLC

\* ------------------------------------------------------------------ bounds
NumCalls == 2
MaxInt == 1

Calls == 1..NumCalls
Ints == 0..MaxInt

\* ------------------------------------------------------- host-side objects
None == <<"None">>
Absent == <<"absent">>
PyStr(s) == <<"pystr", s>>
PyInt(n) == <<"pyint", n>>

\* ------------------------------------------------ Value (PyOnionObject)
Null == <<"null">>
Boolean(b) == <<"bool", b>>
Integer(n) == <<"int", n>>
String(s) == <<"str", s>>
Pair(k, v) == <<"pair", k, v>>
Named(n, v) == <<"named", n, v>>
Tuple(elems) == <<"tuple", elems>>
Callable(name, flavor, params) == <<"callable", name, flavor, params>>

kind(v) == v[1]
is_pair(v) == kind(v) = "pair"
is_integer(v) == kind(v) = "int"
is_boolean(v) == kind(v) = "bool"
key(v) == v[2]
value(v) == v[3]

\* ------------------------------------------------------------ exceptions
Exc(cls, args, val) == [cls |-> cls, args |-> args, value |-> val]

Parent(cls) ==
    CASE cls = "OnionRuntimeError" -> "RuntimeError"
      [] cls = "RuntimeError" -> "Exception"
      [] cls = "ValueError" -> "Exception"
      [] cls = "TypeMismatch" -> "Exception"
      [] cls = "EvalError" -> "Exception"
      [] cls = "Exception" -> "BaseException"
      [] cls = "CancelledError" -> "BaseException"
      [] OTHER -> "object"

RECURSIVE Ancestors(_)
Ancestors(cls) ==
    IF cls = "object" THEN {} ELSE {cls} \cup Ancestors(Parent(cls))

\* isinstance(e, cls): what an `except cls` handler catches
IsInstance(e, cls) == cls \in Ancestors(e.cls)

\* as if __init__ forgot `self.value = v`
OnionRuntimeError_without_value(v) == Exc("OnionRuntimeError", <<v>>, Absent)

OnionRuntimeError(v) == Exc("OnionRuntimeError", <<v>>, v)
RuntimeError(msg) == Exc("RuntimeError", <<PyStr(msg)>>, Absent)
ValueError(msg) == Exc("ValueError", <<PyStr(msg)>>, Absent)
CancelledError == Exc("CancelledError", <<>>, Absent)
EvalError == Exc("EvalError", <<PyStr("cannot evaluate source")>>, Absent)
TypeMismatch(expected, actual) ==
    Exc("TypeMismatch", <<PyStr("expected " \o expected \o ", got " \o actual)>>, Absent)

\* -------------------------------------------------- accessors, rendering
as_boolean(v) ==
    IF is_boolean(v) THEN <<"return", v[2]>>
    ELSE <<"raise", TypeMismatch("bool", kind(v))>>

as_integer(v) ==
    IF is_integer(v) THEN <<"return", v[2]>>
    ELSE <<"raise", TypeMismatch("int", kind(v))>>

RECURSIVE Render(_)
Render(v) ==
    CASE kind(v) = "null" -> "null"
      [] kind(v) = "bool" -> IF v[2] THEN "true" ELSE "false"
      [] kind(v) = "int" -> ToString(v[2])
      [] kind(v) = "str" -> v[2]
      [] kind(v) = "pair" -> Render(v[2]) \o " : " \o Render(v[3])
      [] kind(v) = "callable" -> "<callable>"
      [] OTHER -> "<value>"

\* unwrap_py: the host object a Value stands for
unwrap_py(v) ==
    CASE kind(v) = "str" -> PyStr(v[2])
      [] kind(v) = "int" -> PyInt(v[2])
      [] OTHER -> None

\* ------------------------------------------------------------ error bridge
\* Variants of eval_or_throw with one line changed.
\* `return result` for `return v`
eval_or_throw_returns_pair(res) ==
    IF res[1] = "raise" THEN res
    ELSE LET result == res[2] IN
        IF ~is_pair(result)
        THEN <<"raise", RuntimeError("Cannot resolve result: " \o Render(result))>>
        ELSE LET b == as_boolean(key(result))
             IN IF b[1] = "raise" THEN b
                ELSE IF b[2] THEN <<"return", result>>
                ELSE <<"raise", OnionRuntimeError(value(result))>>

\* `raise OnionRuntimeError(k)` for `raise OnionRuntimeError(v)`
eval_or_throw_raises_key(res) ==
    IF res[1] = "raise" THEN res
    ELSE LET result == res[2] IN
        IF ~is_pair(result)
        THEN <<"raise", RuntimeError("Cannot resolve result: " \o Render(result))>>
        ELSE LET b == as_boolean(key(result))
             IN IF b[1] = "raise" THEN b
                ELSE IF b[2] THEN <<"return", value(result)>>
                ELSE <<"raise", OnionRuntimeError(key(result))>>

\* the failure branch missing: `return v` whatever the key
eval_or_throw_never_raises(res) ==
    IF res[1] = "raise" THEN res
    ELSE LET result == res[2] IN
        IF ~is_pair(result)
        THEN <<"raise", RuntimeError("Cannot resolve result: " \o Render(result))>>
        ELSE LET b == as_boolean(key(result))
             IN IF b[1] = "raise" THEN b
                ELSE <<"return", value(result)>>

\* `if k:` for `if k.as_boolean():` with a failing accessor read as falsy
eval_or_throw_truthy_key(res) ==
    IF res[1] = "raise" THEN res
    ELSE LET result == res[2] IN
        IF ~is_pair(result)
        THEN <<"raise", RuntimeError("Cannot resolve result: " \o Render(result))>>
        ELSE LET b == as_boolean(key(result))
             IN IF b[1] = "return" /\ b[2] THEN <<"return", value(result)>>
                ELSE <<"raise", OnionRuntimeError(value(result))>>

\* the await wrapped in `try ... except BaseException: raise OnionRuntimeError(None)`
eval_or_throw_wraps_errors(res) ==
    IF res[1] = "raise" THEN <<"raise", OnionRuntimeError(Null)>>
    ELSE LET result == res[2] IN
        IF ~is_pair(result)
        THEN <<"raise", RuntimeError("Cannot resolve result: " \o Render(result))>>
        ELSE LET b == as_boolean(key(result))
             IN IF b[1] = "raise" THEN b
                ELSE IF b[2] THEN <<"return", value(result)>>
                ELSE <<"raise", OnionRuntimeError(value(result))>>

\* Lines 33-39 of eval_or_throw, applied to the completion of `await eval`.
eval_or_throw_outcome(res) ==
    IF res[1] = "raise" THEN res
    ELSE LET result == res[2] IN
        IF ~is_pair(result)
        THEN <<"raise", RuntimeError("Cannot resolve result: " \o Render(result))>>
        ELSE LET k == key(result)
                 v == value(result)
                 b == as_boolean(k)
             IN IF b[1] = "raise" THEN b
                ELSE IF b[2] THEN <<"return", v>>
                ELSE <<"raise", OnionRuntimeError(v)>>

\* ------------------------------------------------- host -> Value marshalling
ToValue(obj) ==
    CASE obj[1] = "pyint" -> Integer(obj[2])
      [] obj[1] = "pystr" -> String(obj[2])
      [] OTHER -> Null

\* A host exception caught at the adapter boundary becomes a thrown script
\* value that carries the exception's message.
ThrownValue(e) == String(e.args[1][2])

\* ------------------------------------------------------ callable adapters
ParamSpec == <<"a", "b">>

TestContext ==
    <<"list", << Named("add", Callable("<python>::add", "sync", ParamSpec)),
                 Named("async_add", Callable("<python>::async_add", "async", ParamSpec)) >> >>

\* (work_dir, context) as the host passes them: the two configurations of
\* the tests, and one with a working directory
HostConfigs == {<<None, None>>, <<None, TestContext>>, <<PyStr("."), None>>}

Names(ctx) ==
    IF ctx = None THEN {} ELSE {ctx[2][i][2] : i \in 1..Len(ctx[2])}

ContextLookup(ctx, name) ==
    IF name \in Names(ctx)
    THEN LET i == CHOOSE j \in 1..Len(ctx[2]) : ctx[2][j][2] = name IN ctx[2][i][3]
    ELSE Absent

\* positional arguments are bound to the declared parameters in order
Bind(params, args) ==
    Tuple([i \in 1..Len(params) |-> Named(params[i], args[i])])

\* arguments.<name>: scan the Named elements of a Tuple
Field(t, name) ==
    LET i == CHOOSE j \in 1..Len(t[2]) : t[2][j][1] = "named" /\ t[2][j][2] = name
    IN t[2][i][3]

\* ------------------------------------------- host functions of the test
\* `return a - b` for `return a + b`
add_subtracts(self_object, arguments) ==
    LET a == as_integer(Field(arguments, "a"))
        b == as_integer(Field(arguments, "b"))
    IN IF a[1] = "raise" THEN a
       ELSE IF b[1] = "raise" THEN b
       ELSE <<"return", PyInt(a[2] - b[2])>>

add(self_object, arguments) ==
    LET a == as_integer(Field(arguments, "a"))
        b == as_integer(Field(arguments, "b"))
    IN IF a[1] = "raise" THEN a
       ELSE IF b[1] = "raise" THEN b
       ELSE <<"return", PyInt(a[2] + b[2])>>

\* async_add up to its first suspension (await asyncio.sleep(1))
async_add_start(self_object, arguments) ==
    LET a == as_integer(Field(arguments, "a"))
        b == as_integer(Field(arguments, "b"))
    IN IF a[1] = "raise" THEN a
       ELSE IF b[1] = "raise" THEN b
       ELSE <<"suspend">>

\* async_add after the sleep
async_add_finish == <<"raise", ValueError("simulated async error")>>

\* ----------------------------------------------------------------- scripts
ArgValues == {Integer(n) : n \in Ints} \cup {String("s")}

OpaqueScript == <<"opaque", <<>> >>
MalformedScript == <<"malformed", <<>> >>
CallScript(name, x, y) == <<name, <<x, y>> >>

Scripts ==
    {OpaqueScript, MalformedScript}
      \cup {CallScript("add", x, y) : x \in ArgValues, y \in ArgValues}
      \cup {CallScript("async_add", x, Integer(5)) : x \in {Integer(3), String("s")}}

Required(code) == IF code[1] \in {"add", "async_add"} THEN {code[1]} ELSE {}

Payloads == {Integer(1), Pair(String("kind"), String("boom"))}
TerminalValues ==
    {Null, Integer(1)}
      \cup {Pair(k, p) : k \in {Boolean(TRUE), Boolean(FALSE), Integer(0)}, p \in Payloads}

\* what an evaluation whose behaviour this layer does not determine may end with
OpaqueCompletions == {<<"value", tv>> : tv \in TerminalValues}

\* terminal Value of a script that returns the adapter's result and catches nothing
SyncCallCompletion(r) ==
    IF r[1] = "raise"
    THEN <<"value", Pair(Boolean(FALSE), ThrownValue(r[2]))>>
    ELSE <<"value", Pair(Boolean(TRUE), ToValue(r[2]))>>

\* ------------------------------------------------------------------- state
VARIABLES work_dir, context, pc, req, evalArgs, res, task, hostCalls, awaited, outcome

vars == <<work_dir, context, pc, req, evalArgs, res, task, hostCalls, awaited, outcome>>

Init ==
    /\ \E cfg \in HostConfigs :
        /\ work_dir = cfg[1]
        /\ context = cfg[2]
    /\ pc = [c \in Calls |-> "idle"]
    /\ req = [c \in Calls |-> None]
    /\ evalArgs = [c \in Calls |-> <<>>]
    /\ res = [c \in Calls |-> <<"none">>]
    /\ task = [c \in Calls |-> <<"none">>]
    /\ hostCalls = [c \in Calls |-> <<>>]
    /\ awaited = [c \in Calls |-> <<"none">>]
    /\ outcome = [c \in Calls |-> <<"none">>]

\* `eval(code, work_dir, None)` for `eval(code, work_dir, context)`
EvalCallArgs_drops_context(code, wd, ctx) == <<code, wd, None>>

\* line 32: the arguments eval is called with
EvalCallArgs(code, wd, ctx) == <<code, wd, ctx>>

\* The host calls eval_or_throw(code, work_dir, context); the coroutine runs
\* to `await eval(...)` and suspends there.
Call(c) ==
    /\ pc[c] = "idle"
    /\ \E code \in Scripts :
        /\ Required(code) \subseteq Names(context)
        /\ req' = [req EXCEPT ![c] = <<code, work_dir, context>>]
        /\ evalArgs' = [evalArgs EXCEPT ![c] = Append(@, EvalCallArgs(code, work_dir, context))]
    /\ pc' = [pc EXCEPT ![c] = "awaiting"]
    /\ res' = [res EXCEPT ![c] = <<"pending">>]
    /\ UNCHANGED <<work_dir, context, task, hostCalls, awaited, outcome>>

\* how a host task that has run to its end is recorded
TaskEnd(r) == IF r[1] = "raise" THEN <<"failed", r[2]>> ELSE <<"completed", r[2]>>

\* The evaluator executes the submitted script up to its completion or to
\* the suspension on an asynchronous adapter.
EvalRun(c) ==
    /\ pc[c] = "awaiting"
    /\ res[c] = <<"pending">>
    /\ task[c] = <<"none">>
    /\ LET passed == evalArgs[c][Len(evalArgs[c])]
           code == passed[1]
           f == ContextLookup(passed[3], code[1])
       IN CASE code[1] = "malformed" ->
                 /\ res' = [res EXCEPT ![c] = <<"raise", EvalError>>]
                 /\ UNCHANGED <<task, hostCalls>>
            [] code[1] \in {"add", "async_add"} /\ f # Absent /\ f[3] = "sync" ->
                 LET arguments == Bind(f[4], code[2]) IN
                 /\ hostCalls' = [hostCalls EXCEPT ![c] = Append(@, <<f[2], arguments>>)]
                 /\ res' = [res EXCEPT ![c] = SyncCallCompletion(add(None, arguments))]
                 /\ UNCHANGED task
            [] code[1] \in {"add", "async_add"} /\ f # Absent /\ f[3] = "async" ->
                 LET arguments == Bind(f[4], code[2])
                     r == async_add_start(None, arguments)
                 IN
                 /\ hostCalls' = [hostCalls EXCEPT ![c] = Append(@, <<f[2], arguments>>)]
                 /\ task' = [task EXCEPT ![c] =
                        IF r[1] = "suspend" THEN <<"pending">> ELSE TaskEnd(r)]
                 /\ UNCHANGED res
            [] OTHER ->
                 /\ \E done \in OpaqueCompletions : res' = [res EXCEPT ![c] = done]
                 /\ UNCHANGED <<task, hostCalls>>
    /\ UNCHANGED <<work_dir, context, pc, req, evalArgs, awaited, outcome>>

\* The pending host task wakes from its sleep and runs to its end.
HostTaskStep(c) ==
    /\ task[c] = <<"pending">>
    /\ task' = [task EXCEPT ![c] = TaskEnd(async_add_finish)]
    /\ UNCHANGED <<work_dir, context, pc, req, evalArgs, res, hostCalls, awaited, outcome>>

\* The suspended script is resumed with the task's failure as a thrown
\* script error; the script does not catch it, so the evaluation ends.
ResumeCompletion(t) ==
    IF t[1] = "failed"
    THEN <<"value", Pair(Boolean(FALSE), ThrownValue(t[2]))>>
    ELSE <<"value", Pair(Boolean(TRUE), ToValue(t[2]))>>

Resume(c) ==
    /\ task[c][1] \in {"failed", "completed"}
    /\ res[c] = <<"pending">>
    /\ res' = [res EXCEPT ![c] = ResumeCompletion(task[c])]
    /\ UNCHANGED <<work_dir, context, pc, req, evalArgs, task, hostCalls, awaited, outcome>>

\* eval has completed: eval_or_throw resumes after line 32 and runs to its end.
Bridge(c) ==
    /\ pc[c] = "awaiting"
    /\ res[c][1] \in {"value", "raise"}
    /\ awaited' = [awaited EXCEPT ![c] = res[c]]
    /\ outcome' = [outcome EXCEPT ![c] = eval_or_throw_outcome(res[c])]
    /\ pc' = [pc EXCEPT ![c] = "done"]
    /\ UNCHANGED <<work_dir, context, req, evalArgs, res, task, hostCalls>>

\* what `await eval(...)` gives a coroutine that is cancelled while suspended on it
AwaitCancelled == <<"raise", CancelledError>>

\* cancellation reaches the host task an evaluation is suspended on
CancelTask(t) == IF t = <<"pending">> THEN <<"cancelled">> ELSE t

\* The host cancels the awaited eval_or_throw: the await at line 32 raises
\* CancelledError into the coroutine, which runs to its end from there.
Cancel(c) ==
    /\ pc[c] = "awaiting"
    /\ awaited' = [awaited EXCEPT ![c] = AwaitCancelled]
    /\ outcome' = [outcome EXCEPT ![c] = eval_or_throw_outcome(AwaitCancelled)]
    /\ pc' = [pc EXCEPT ![c] = "done"]
    /\ task' = [task EXCEPT ![c] = CancelTask(@)]
    /\ res' = [res EXCEPT ![c] = IF @ = <<"pending">> THEN <<"cancelled">> ELSE @]
    /\ UNCHANGED <<work_dir, context, req, evalArgs, hostCalls>>

\* one step of call c, by the host, the evaluator, the host task or the event loop
Step(c) ==
    \/ Call(c)
    \/ EvalRun(c)
    \/ HostTaskStep(c)
    \/ Resume(c)
    \/ Bridge(c)
    \/ Cancel(c)

Next == \E c \in Calls : Step(c)

Spec == Init /\ [][Next]_vars

\* A host with at most two evaluations in flight.
PairOfCalls == {c \in Calls : c <= 2}

PairNext == \E c \in PairOfCalls : Step(c)

\* The event loop and the evaluator's scheduler run every step that is ready;
\* the host is free never to call and never to cancel.
Fairness ==
    \A c \in PairOfCalls :
        /\ WF_vars(EvalRun(c))
        /\ WF_vars(HostTaskStep(c))
        /\ WF_vars(Resume(c))
        /\ WF_vars(Bridge(c))

FairSpec == Init /\ [][PairNext]_vars /\ Fairness

\* ================================================================ properties
Done(c) == pc[c] = "done"
Code(c) == req[c][1]
StructuredPayload == Pair(String("kind"), String("boom"))

\* `await eval(...)` produced the terminal Value that eval_or_throw then decomposed
GotValue(c) == Done(c) /\ awaited[c][1] = "value"
GotPairKeyed(c, k) ==
    GotValue(c) /\ is_pair(awaited[c][2]) /\ key(awaited[c][2]) = k
GotNonBooleanKey(c) ==
    GotValue(c) /\ is_pair(awaited[c][2]) /\ ~is_boolean(key(awaited[c][2]))
GotNonPair(c) == GotValue(c) /\ ~is_pair(awaited[c][2])
Raised(c, cls) == outcome[c][1] = "raise" /\ outcome[c][2].cls = cls

\* C1: whenever eval completes with a Pair whose key is the Boolean true,
\* eval_or_throw returns that Pair's value(), unchanged, and raises nothing.
C1_ReturnsPayload ==
    \A c \in Calls :
        GotPairKeyed(c, Boolean(TRUE)) => outcome[c] = <<"return", value(awaited[c][2])>>

C1_Witness ==
    \E c \in Calls :
        /\ GotPairKeyed(c, Boolean(TRUE))
        /\ outcome[c] = <<"return", StructuredPayload>>

\* C2: whenever eval completes with a Pair whose key is the Boolean false,
\* eval_or_throw raises OnionRuntimeError whose .value is the Pair's payload.
C2_RaisesWithPayload ==
    \A c \in Calls :
        GotPairKeyed(c, Boolean(FALSE)) =>
            /\ Raised(c, "OnionRuntimeError")
            /\ outcome[c][2].value = value(awaited[c][2])

C2_Witness ==
    \E c \in Calls :
        /\ GotPairKeyed(c, Boolean(FALSE))
        /\ Raised(c, "OnionRuntimeError")
        /\ outcome[c][2].value = StructuredPayload

\* C3: the error raised for a non-Pair terminal Value and the error raised
\* for a script that threw are never confused: a handler for the class of
\* either one does not catch the other.
C3_ShapeErrorDistinct ==
    \A c, d \in Calls :
        (GotNonPair(c) /\ GotPairKeyed(d, Boolean(FALSE))) =>
            /\ outcome[c][1] = "raise"
            /\ outcome[d][1] = "raise"
            /\ ~IsInstance(outcome[c][2], outcome[d][2].cls)
            /\ ~IsInstance(outcome[d][2], outcome[c][2].cls)

\* the failure of async_add's host task after its sleep
AsyncFailure == async_add_finish[2]
TaskFailedAfterSuspending(c) == task[c] = <<"failed", AsyncFailure>>

\* C4: once the host task of an asynchronous adapter has failed after
\* suspending, the call ends, and unless the host cancelled it, it ends with
\* the script resumed by a thrown error and eval_or_throw raising
\* OnionRuntimeError whose payload unwraps to the original error's message.
C4_AsyncFailureSurfaces ==
    \A c \in Calls :
        TaskFailedAfterSuspending(c) ~>
            /\ Done(c)
            /\ \/ awaited[c] = <<"raise", CancelledError>>
               \/ /\ res[c][1] = "value"
                  /\ is_pair(res[c][2])
                  /\ key(res[c][2]) = Boolean(FALSE)
                  /\ awaited[c] = res[c]
                  /\ Raised(c, "OnionRuntimeError")
                  /\ unwrap_py(outcome[c][2].value) = AsyncFailure.args[1]

C4_Witness ==
    \E c \in Calls :
        /\ TaskFailedAfterSuspending(c)
        /\ Done(c)
        /\ Raised(c, "OnionRuntimeError")
        /\ unwrap_py(outcome[c][2].value) = PyStr("simulated async error")

\* the script of call c calls the synchronous adapter with an argument the
\* host function rejects
SyncHostRaises(c) ==
    /\ pc[c] # "idle"
    /\ Code(c)[1] = "add"
    /\ \E i \in 1..2 : ~is_integer(Code(c)[2][i])

\* C5: an exception of a synchronous adapter's host function never leaves
\* eval as a host-level exception: eval completes with a Pair of falsy key
\* and the error as payload, and eval_or_throw raises OnionRuntimeError.
C5_SyncErrorContained ==
    \A c \in Calls :
        SyncHostRaises(c) =>
            /\ res[c][1] # "raise"
            /\ res[c][1] = "value" =>
                /\ Len(hostCalls[c]) = 1
                /\ is_pair(res[c][2])
                /\ key(res[c][2]) = Boolean(FALSE)
                /\ unwrap_py(value(res[c][2])) = TypeMismatch("int", "str").args[1]
            /\ (Done(c) /\ awaited[c] = res[c]) =>
                /\ Raised(c, "OnionRuntimeError")
                /\ outcome[c][2].value = value(res[c][2])

C5_Witness ==
    \E c \in Calls :
        /\ SyncHostRaises(c)
        /\ Done(c)
        /\ res[c] = <<"value", Pair(Boolean(FALSE), String("expected int, got str"))>>
        /\ Raised(c, "OnionRuntimeError")

\* the script of call c is `return add(x, y)` with integers, and eval has completed
SyncAddCompleted(c) ==
    /\ pc[c] # "idle"
    /\ Code(c)[1] = "add"
    /\ is_integer(Code(c)[2][1])
    /\ is_integer(Code(c)[2][2])
    /\ res[c][1] \in {"value", "raise"}

\* C6: add(x, y) with integers binds x to a and y to b, invokes the host
\* function once, and eval completes with Pair(true, x + y); two evaluations
\* of the same script with the same context complete alike.
C6_SyncAdd ==
    /\ \A c \in Calls :
        SyncAddCompleted(c) =>
            LET x == Code(c)[2][1]
                y == Code(c)[2][2]
            IN /\ hostCalls[c] =
                    << <<"<python>::add", Tuple(<<Named("a", x), Named("b", y)>>)>> >>
               /\ res[c] = <<"value", Pair(Boolean(TRUE), Integer(x[2] + y[2]))>>
    /\ \A c, d \in Calls :
        (SyncAddCompleted(c) /\ SyncAddCompleted(d) /\ Code(c) = Code(d)) =>
            res[c] = res[d]

C6_Witness ==
    \E c, d \in Calls :
        /\ c # d
        /\ SyncAddCompleted(c)
        /\ SyncAddCompleted(d)
        /\ Code(c) = CallScript("add", Integer(0), Integer(1))
        /\ Code(d) = Code(c)
        /\ res[d] = <<"value", Pair(Boolean(TRUE), Integer(1))>>

\* C7: a call cancelled by the host ends as CancelledError, not with a
\* payload or OnionRuntimeError, and leaves no host task pending.
C7_CancelPropagates ==
    \A c \in Calls :
        awaited[c] = <<"raise", CancelledError>> =>
            /\ Done(c)
            /\ Raised(c, "CancelledError")
            /\ task[c] # <<"pending">>
            /\ task[c][1] # "completed"

C7_Witness ==
    \E c \in Calls :
        /\ awaited[c] = <<"raise", CancelledError>>
        /\ task[c] = <<"cancelled">>
        /\ Raised(c, "CancelledError")

\* the error object holds the Value itself, as an attribute or an argument
Carries(e, v) == e.value = v \/ \E i \in 1..Len(e.args) : e.args[i] = v

\* C8: both failure paths of eval_or_throw raise an error that carries the
\* offending Value: the payload when the script threw, the terminal Value
\* when it is not a Pair.
C8_FailuresCarryValue ==
    \A c \in Calls :
        /\ GotPairKeyed(c, Boolean(FALSE)) =>
            (outcome[c][1] = "raise" /\ Carries(outcome[c][2], value(awaited[c][2])))
        /\ GotNonPair(c) =>
            (outcome[c][1] = "raise" /\ Carries(outcome[c][2], awaited[c][2]))

\* the four ways a call of eval_or_throw ends
OutcomeCases(c) ==
    {k \in {"payload", "OnionRuntimeError", "shape error", "propagated"} :
        \/ k = "payload" /\ outcome[c][1] = "return"
        \/ k = "OnionRuntimeError" /\ Raised(c, "OnionRuntimeError")
        \/ k = "shape error" /\ Raised(c, "RuntimeError")
        \/ k = "propagated" /\ outcome[c][1] = "raise"
              /\ \/ outcome[c] = awaited[c]
                 \/ GotNonBooleanKey(c) /\ outcome[c] = as_boolean(key(awaited[c][2]))}

\* C9: a Pair whose key is not a Boolean makes eval_or_throw end with the
\* accessor's error, and every call ends in exactly one of the four cases,
\* the one its terminal Value selects.
C9_FourOutcomes ==
    \A c \in Calls :
        Done(c) =>
            /\ Cardinality(OutcomeCases(c)) = 1
            /\ GotNonBooleanKey(c) =>
                (OutcomeCases(c) = {"propagated"} /\ Raised(c, "TypeMismatch"))
            /\ GotPairKeyed(c, Boolean(TRUE)) => OutcomeCases(c) = {"payload"}
            /\ GotPairKeyed(c, Boolean(FALSE)) => OutcomeCases(c) = {"OnionRuntimeError"}
            /\ GotNonPair(c) => OutcomeCases(c) = {"shape error"}
            /\ awaited[c][1] = "raise" => OutcomeCases(c) = {"propagated"}

C9_Witness ==
    \E c \in Calls :
        /\ GotNonBooleanKey(c)
        /\ key(awaited[c][2]) = Integer(0)
        /\ Raised(c, "TypeMismatch")

\* C10: a call invokes eval once with the caller's arguments, has an outcome
\* only once its await has completed, passes an error of eval on unchanged,
\* and calls that got the same completion have the same outcome.
C10_SelfContained ==
    /\ \A c \in Calls :
        /\ pc[c] = "idle" => evalArgs[c] = <<>>
        /\ pc[c] # "idle" => evalArgs[c] = <<req[c]>>
        /\ outcome[c] # <<"none">> =>
            /\ Done(c)
            /\ awaited[c] \in {res[c], <<"raise", CancelledError>>}
        /\ awaited[c][1] = "raise" => outcome[c] = awaited[c]
    /\ \A c, d \in Calls :
        (Done(c) /\ Done(d) /\ awaited[c] = awaited[d]) => outcome[c] = outcome[d]

C10_Witness ==
    \E c, d \in Calls :
        /\ c # d
        /\ Done(c)
        /\ Done(d)
        /\ req[c][3] = TestContext
        /\ Code(c) # Code(d)
        /\ outcome[c][1] = "return"
        /\ Raised(d, "EvalError")

====
